---- MODULE Spec2Model ----
(***************************************************************************)
(* discord-tictactoe: the session registry of GameStateManager             *)
(* (requestDuel, createGame, endGame) driven by GameCommand, with the      *)
(* asynchronous calls interleaving at their await points.                  *)
(***************************************************************************)
EXTENDS Integers, Sequences, FiniteSets, TLC

\* ------------------------------------------------------------------ bounds
\* number of commands (tunnels) the bot receives in one run
MaxCalls == 2
\* number of clock advances in one run
MaxTicks == 1
\* milliseconds the clock advances by in one step
TickMs == 1000
\* number of parent text channels the bot sees
MaxParents == 4

\* ------------------------------------------------------------------ values
Members == {"A", "B"}
FirstMember == "A"
Bots == {"bot"}
None == "none"

\* an optional number is <<>> (undefined) or <<n>>
Undefined == <<>>
Nullish(x, d) == IF x = Undefined THEN d ELSE x[1]

\* an entity: a member (id) or an AI object (n tells the objects apart)
NoEntity == [kind |-> "none", id |-> "none", n |-> 0, level |-> "none"]
\* the two non-entity values of endGame's winner argument
WinnerNull == [kind |-> "null", id |-> "none", n |-> 0, level |-> "none"]
WinnerUndefined == [kind |-> "undefined", id |-> "none", n |-> 0, level |-> "none"]
MemberEntity(m) == [kind |-> "member", id |-> m, n |-> 0, level |-> "none"]

NoBoard == [id |-> 0, entities |-> <<NoEntity, NoEntity>>]

\* rejection payloads: "none" (not rejected), "undefined" (Promise.reject()),
\* an Error with a message, or a thrown value that carries no message
ErrVeto == "Error:veto"
ErrNoMessage == "thrown:no-message"
ErrReply == "Error:reply-failed"
ErrAttach == "Error:attach-failed"
HandlerOutcomes == {"ok", ErrVeto, ErrNoMessage}

Range(s) == {s[i] : i \in 1..Len(s)}

\* ------------------------------------------------------------------ state
VARIABLES
    gameboards,              \* GameStateManager.gameboards
    memberCooldownEndTimes,  \* GameStateManager.memberCooldownEndTimes
    configuration,           \* bot.configuration (read-only)
    now,                     \* Date.now()
    ticks,                   \* clock advances so far
    calls,                   \* one record per command received
    last,                    \* what the latest operation did
    channels,                \* TicTacToeBot._channels
    got                      \* the latest getorCreateGameChannel call

vars == <<gameboards, memberCooldownEndTimes, configuration, now, ticks, calls, last,
          channels, got>>

Calls == 1..MaxCalls

Configurations ==
    [requestCooldownTime : {Undefined, <<0>>, <<1>>},
     aiDifficulty : {"undefined", "Hard"}]

IdleCall ==
    [tunnel |-> [author |-> None, ok |-> TRUE],
     invited |-> None,
     cmd |-> "idle", cmdErr |-> "none", errReplies |-> 0, handle |-> "none",
     rd |-> "none", rdErr |-> "none", duel |-> "none",
     cg |-> "none", cgErr |-> "none", cgLen |-> 0,
     board |-> NoBoard, replies |-> 0, trace |-> <<>>]

\* the cooldown map: each member has no entry (Undefined) or an end time <<t>>
NoCooldowns == [m \in Members |-> Undefined]

NoLast ==
    [op |-> "init", call |-> 0, valid |-> FALSE, possible |-> FALSE,
     pre |-> <<>>, preCd |-> NoCooldowns, emitted |-> <<>>,
     replied |-> 0, board |-> NoBoard, winner |-> WinnerUndefined,
     outcome |-> "none", canView |-> TRUE]

\* no getorCreateGameChannel call yet
NoGot == [parent |-> 0, instance |-> [inst |-> 0, channel |-> 0], pre |-> <<>>]

Init ==
    /\ gameboards = <<>>
    /\ memberCooldownEndTimes = NoCooldowns
    /\ configuration \in Configurations
    /\ now = 0
    /\ ticks = 0
    /\ calls = [c \in Calls |-> IdleCall]
    /\ last = NoLast
    /\ channels = <<>>
    /\ got = NoGot

\* ------------------------------------------------------- GameStateValidator
\* a member is within the cooldown window: a recorded end time t > now
InCooldown(member, cooldowns, t) ==
    /\ cooldowns[member] # Undefined
    /\ cooldowns[member][1] > t

\* the interaction context is usable and its author is not cooling down
isInteractionValid(tunnel, cooldowns, t) ==
    tunnel.ok /\ ~InCooldown(tunnel.author, cooldowns, t)

\* neither the author nor the invited member plays in a registered board
isNewGamePossible(tunnel, invited, boards) ==
    ~\E i \in 1..Len(boards) :
        \E j \in 1..2 :
            \/ boards[i].entities[j] = MemberEntity(tunnel.author)
            \/ invited # None /\ boards[i].entities[j] = MemberEntity(invited)

\* ------------------------------------------------------------- EventHandler
NewGameEvent(players) ==
    [name |-> "newGame", players |-> players, winner |-> NoEntity, loser |-> NoEntity]
WinEvent(winner, loser) ==
    [name |-> "win", players |-> <<>>, winner |-> winner, loser |-> loser]
TieEvent(players) ==
    [name |-> "tie", players |-> players, winner |-> NoEntity, loser |-> NoEntity]

\* ---------------------------------------------------------- GameStateManager
\* AIDifficultyLevel[name]
AIDifficultyLevel(name) == <<"level", name>>

\* new AI(level): an entity of its own identity; no level means the default
AI(id, level) ==
    [kind |-> "ai", id |-> "none", n |-> id,
     level |-> IF level = Undefined THEN "default" ELSE level[2]]

\* createAI forgetting the configured difficulty
createAIDefault(id, config) == AI(id, Undefined)

createAI(id, config) ==
    AI(id, IF config.aiDifficulty # "undefined"
           THEN AIDifficultyLevel(config.aiDifficulty)
           ELSE Undefined)

\* new GameBoard(this, tunnel, invited ?? this.createAI(), configuration)
NewGameBoard(id, tunnel, invited, config) ==
    [id |-> id,
     entities |-> <<MemberEntity(tunnel.author),
                    IF invited # None THEN MemberEntity(invited)
                                      ELSE createAI(id, config)>>]

\* Array.prototype.indexOf: 0-based index of the first occurrence, or -1
IndexOf(boards, gameboard) ==
    IF \E i \in 1..Len(boards) : boards[i] = gameboard
    THEN (CHOOSE i \in 1..Len(boards) :
              /\ boards[i] = gameboard
              /\ \A j \in 1..(i - 1) : boards[j] # gameboard) - 1
    ELSE -1

\* Array.prototype.splice(start, 1): a negative start counts from the end
Splice1(boards, start) ==
    LET from == IF start < 0
                THEN (IF Len(boards) + start < 0 THEN 0 ELSE Len(boards) + start)
                ELSE (IF start > Len(boards) THEN Len(boards) ELSE start)
    IN  SubSeq(boards, 1, from) \o SubSeq(boards, from + 2, Len(boards))

\* this.gameboards.splice(this.gameboards.indexOf(gameboard), 1)
\* splice(index) without a delete count drops every board from index on
RemoveBoardNoCount(boards, gameboard) ==
    LET idx == IndexOf(boards, gameboard)
    IN  IF idx = -1 THEN SubSeq(boards, 1, Len(boards) - 1)
        ELSE SubSeq(boards, 1, idx)

RemoveBoard(boards, gameboard) == Splice1(boards, IndexOf(boards, gameboard))

\* gameboard.entities.find(entity => entity !== winner)
FindOther(entities, winner) ==
    IF entities[1] # winner THEN entities[1]
    ELSE IF entities[2] # winner THEN entities[2]
    ELSE NoEntity

\* endGame with `else` in place of `else if (winner === null)`
EndGameEventsTieWhenFalsy(gameboard, winner) ==
    IF winner.kind \notin {"null", "undefined"}
    THEN <<WinEvent(winner, FindOther(gameboard.entities, winner))>>
    ELSE <<TieEvent(gameboard.entities)>>

\* the notification endGame emits for its winner argument
EndGameEvents(gameboard, winner) ==
    IF winner.kind \notin {"null", "undefined"}
    THEN <<WinEvent(winner, FindOther(gameboard.entities, winner))>>
    ELSE IF winner = WinnerNull
    THEN <<TieEvent(gameboard.entities)>>
    ELSE <<>>
\* requestDuel without its isNewGamePossible check
RequestDuelGateNoPossibleCheck(tunnel, invited, boards, cooldowns, t) ==
    IF isInteractionValid(tunnel, cooldowns, t) THEN "proceed" ELSE "skip"

\* requestDuel's guards: "skip" leaves the body out, "reject" is Promise.reject()
RequestDuelGate(tunnel, invited, boards, cooldowns, t) ==
    IF isInteractionValid(tunnel, cooldowns, t)
    THEN IF ~isNewGamePossible(tunnel, invited, boards) THEN "reject" ELSE "proceed"
    ELSE "skip"

\* createGame without its isNewGamePossible check
CreateGameGateNoPossibleCheck(tunnel, invited, boards, cooldowns, t) ==
    IF isInteractionValid(tunnel, cooldowns, t) THEN "proceed" ELSE "skip"

\* createGame rejecting, like a conflict, when the interaction is not valid
CreateGameGateRejectsInvalid(tunnel, invited, boards, cooldowns, t) ==
    IF isInteractionValid(tunnel, cooldowns, t) /\ isNewGamePossible(tunnel, invited, boards)
    THEN "proceed"
    ELSE "reject"

\* createGame's guards
CreateGameGate(tunnel, invited, boards, cooldowns, t) ==
    IF isInteractionValid(tunnel, cooldowns, t)
    THEN IF ~isNewGamePossible(tunnel, invited, boards) THEN "reject" ELSE "proceed"
    ELSE "skip"

\* createGame registering the board before it notifies 'newGame'
CreateGameStepsPushFirst == <<"push", "emitEvent", "replyWith">>

\* createGame replying before it registers the board
CreateGameStepsReplyFirst == <<"emitEvent", "replyWith", "push">>

\* the statements of createGame's body up to its first await, in order
CreateGameSteps == <<"emitEvent", "push", "replyWith">>

\* runs the statements of steps from index i on the running call state st;
\* h is what the 'newGame' handler does ("ok" or the value it throws)
RECURSIVE RunSteps(_, _, _, _, _)
RunSteps(steps, i, st, gameboard, h) ==
    IF i > Len(steps) \/ st.status # "running" THEN st
    ELSE IF steps[i] = "emitEvent"
    THEN RunSteps(steps, i + 1,
            [st EXCEPT !.emitted = Append(@, NewGameEvent(gameboard.entities)),
                       !.trace = Append(@, "newGame"),
                       !.status = IF h = "ok" THEN "running" ELSE "rejected",
                       !.err = IF h = "ok" THEN "none" ELSE h],
            gameboard, h)
    ELSE IF steps[i] = "push"
    THEN RunSteps(steps, i + 1,
            [st EXCEPT !.boards = Append(@, gameboard),
                       !.trace = Append(@, "push")],
            gameboard, h)
    ELSE RunSteps(steps, i + 1,
            [st EXCEPT !.replies = @ + 1,
                       !.trace = Append(@, "replyWith"),
                       !.status = "reply"],
            gameboard, h)

\* createGame from its call to its first await (or to its return)
CreateGameSync(id, tunnel, invited, boards, cooldowns, config, t, h) ==
    LET gate == CreateGameGate(tunnel, invited, boards, cooldowns, t)
        st0 == [boards |-> boards, emitted |-> <<>>, replies |-> 0,
                trace |-> <<"isInteractionValid">>,
                status |-> "running", err |-> "none", board |-> NoBoard]
    IN  IF gate = "skip" THEN [st0 EXCEPT !.status = "resolved"]
        ELSE IF gate = "reject"
        THEN [st0 EXCEPT !.status = "rejected", !.err = "undefined",
                         !.trace = Append(@, "isNewGamePossible")]
        ELSE LET gameboard == NewGameBoard(id, tunnel, invited, config)
             IN  RunSteps(CreateGameSteps, 1,
                    [st0 EXCEPT !.trace = Append(@, "isNewGamePossible"),
                                !.board = gameboard],
                    gameboard, h)

\* requestDuel building the DuelRequest and replying above its guards
RequestDuelSyncRepliesFirst(tunnel, invited, boards, cooldowns, t) ==
    LET gate == RequestDuelGate(tunnel, invited, boards, cooldowns, t)
    IN  IF gate = "skip"
        THEN [status |-> "resolved", err |-> "none", duel |-> "Constructed", replies |-> 1]
        ELSE IF gate = "reject"
        THEN [status |-> "rejected", err |-> "undefined", duel |-> "none", replies |-> 0]
        ELSE [status |-> "reply", err |-> "none", duel |-> "Constructed", replies |-> 1]

\* requestDuel from its call to its first await (or to its return)
RequestDuelSync(tunnel, invited, boards, cooldowns, t) ==
    LET gate == RequestDuelGate(tunnel, invited, boards, cooldowns, t)
    IN  IF gate = "skip"
        THEN [status |-> "resolved", err |-> "none", duel |-> "none", replies |-> 0]
        ELSE IF gate = "reject"
        THEN [status |-> "rejected", err |-> "undefined", duel |-> "none", replies |-> 0]
        ELSE [status |-> "reply", err |-> "none", duel |-> "Constructed", replies |-> 1]

\* the cooldown recorded under the invited member's id
SetupCooldownForInvited(cooldowns, tunnel, invited, config, t) ==
    LET cooldown == Nullish(config.requestCooldownTime, 0)
    IN  IF cooldown > 0
        THEN [cooldowns EXCEPT ![invited] = <<t + cooldown * 1000>>]
        ELSE cooldowns

\* requestDuel's cooldown setup
SetupCooldown(cooldowns, tunnel, invited, config, t) ==
    LET cooldown == Nullish(config.requestCooldownTime, 0)
    IN  IF cooldown > 0
        THEN [cooldowns EXCEPT ![tunnel.author] = <<t + cooldown * 1000>>]
        ELSE cooldowns

\* ------------------------------------------------------------- GameCommand
\* processInvitation without the test that the invited member is not the inviter
processInvitationNoSelfCheck(inviter, invited, canView) ==
    IF invited # None
    THEN IF invited \notin Bots
         THEN IF ~canView THEN "duel.unknown-user" ELSE "handle"
         ELSE "duel.no-bot"
    ELSE "handle"

\* processInvitation: an error code, or "handle" when it goes on to handleInvitation
processInvitation(inviter, invited, canView) ==
    IF invited # None
    THEN IF invited \notin Bots
         THEN IF inviter = invited \/ ~canView
              THEN "duel.unknown-user"
              ELSE "handle"
         ELSE "duel.no-bot"
    ELSE "handle"

\* handleInvitation: the manager entry point it calls
\* a command that starts a game whether or not a member was invited
handleInvitationAlwaysCreates(invited) == "createGame"

handleInvitation(invited) ==
    IF invited # None THEN "requestDuel" ELSE "createGame"

\* err?.message with no default
ErrorMessageNoDefault(err) ==
    IF err = ErrVeto THEN "veto"
    ELSE IF err = ErrReply THEN "reply-failed"
    ELSE IF err = ErrAttach THEN "attach-failed"
    ELSE "undefined"

\* err?.message ?? 'game.in-progress'
ErrorMessage(err) ==
    IF err = ErrVeto THEN "veto"
    ELSE IF err = ErrReply THEN "reply-failed"
    ELSE IF err = ErrAttach THEN "attach-failed"
    ELSE "game.in-progress"

\* the command's promise chain once the manager's promise has state st:
\* a rejection is caught, mapped to its message and replied to the user once
\* (handle is the promise of handleMessage / handleInteraction, which waits
\* for that reply)
SettleCommand(call, st, err) ==
    IF st = "resolved" THEN [call EXCEPT !.cmd = "resolved", !.handle = "resolved"]
    ELSE IF st = "rejected"
    THEN [call EXCEPT !.cmd = "rejected", !.cmdErr = ErrorMessage(err),
                      !.errReplies = @ + 1, !.handle = "replying"]
    ELSE [call EXCEPT !.cmd = "running", !.handle = "running"]

\* ------------------------------------------------------------------ actions
Did(op, c) ==
    [NoLast EXCEPT !.op = op, !.call = c, !.pre = gameboards,
                   !.preCd = memberCooldownEndTimes]

\* handleMessage / handleInteraction: a command arrives and runs up to the
\* first await of the manager's entry point
Command(c, author, invited, canView, ok, h) ==
    /\ calls[c].cmd = "idle"
    /\ \A d \in 1..(c - 1) : calls[d].cmd # "idle"
    \* members are interchangeable: the first command is A's
    /\ c = 1 => author = FirstMember
    /\ LET tunnel == [author |-> author, ok |-> ok]
           base == [IdleCall EXCEPT !.tunnel = tunnel, !.invited = invited]
           verdict == processInvitation(author, invited, canView)
           \* whether the invited member, if any, can view the tunnel's channel
           did(op) == [Did(op, c) EXCEPT !.canView = (invited = None) \/ canView]
       IN  IF verdict # "handle"
           THEN /\ calls' = [calls EXCEPT ![c] =
                       [base EXCEPT !.cmd = "rejected", !.cmdErr = verdict,
                                    !.errReplies = 1, !.handle = "replying"]]
                /\ last' = did("refused")
                /\ UNCHANGED gameboards
           ELSE IF handleInvitation(invited) = "requestDuel"
           THEN LET r == RequestDuelSync(tunnel, invited, gameboards,
                                         memberCooldownEndTimes, now)
                IN  /\ calls' = [calls EXCEPT ![c] =
                           SettleCommand([base EXCEPT !.rd = r.status, !.rdErr = r.err,
                                                      !.duel = r.duel,
                                                      !.replies = r.replies],
                                         r.status, r.err)]
                    /\ last' = [did("requestDuel") EXCEPT
                           !.valid = isInteractionValid(tunnel, memberCooldownEndTimes, now),
                           !.possible = isNewGamePossible(tunnel, invited, gameboards),
                           !.replied = r.replies]
                    /\ UNCHANGED gameboards
           ELSE LET r == CreateGameSync(c, tunnel, None, gameboards,
                                        memberCooldownEndTimes, configuration, now, h)
                IN  /\ calls' = [calls EXCEPT ![c] =
                           SettleCommand([base EXCEPT !.cg = r.status, !.cgErr = r.err,
                                                      !.cgLen = Len(gameboards),
                                                      !.board = r.board,
                                                      !.replies = r.replies,
                                                      !.trace = r.trace],
                                         r.status, r.err)]
                    /\ gameboards' = r.boards
                    /\ last' = [did("createGame") EXCEPT
                           !.valid = isInteractionValid(tunnel, memberCooldownEndTimes, now),
                           !.possible = isNewGamePossible(tunnel, None, gameboards),
                           !.emitted = r.emitted, !.board = r.board,
                           !.replied = r.replies,
                           !.outcome = IF r.emitted # <<>> THEN h ELSE "none"]
    /\ UNCHANGED <<memberCooldownEndTimes, configuration, channels, got, now, ticks>>

\* handleMessage / handleInteraction: the `await tunnel.replyWith(...)` of the
\* catch handler settles, and with it the handler's promise
ErrorReplied(c, r) ==
    /\ calls[c].handle = "replying"
    /\ calls' = [calls EXCEPT ![c].handle = IF r = "ok" THEN "resolved" ELSE "rejected"]
    /\ last' = [Did("errorReplied", c) EXCEPT !.outcome = r]
    /\ UNCHANGED <<gameboards, memberCooldownEndTimes, configuration, channels, got, now, ticks>>

\* requestDuel: `await tunnel.replyWith(duel.content)` settles; on success
\* duel.attachTo(message) is called
RequestDuelReplied(c, r) ==
    /\ calls[c].rd = "reply"
    /\ calls' = [calls EXCEPT ![c] =
           IF r = "ok" THEN [@ EXCEPT !.rd = "attach"]
           ELSE SettleCommand([@ EXCEPT !.rd = "rejected", !.rdErr = r], "rejected", r)]
    /\ last' = [Did("requestDuelReplied", c) EXCEPT !.outcome = r]
    /\ UNCHANGED <<gameboards, memberCooldownEndTimes, configuration, channels, got, now, ticks>>

\* requestDuel: `await duel.attachTo(message)` settles; on success the request
\* is pending on the message and the cooldown is set up
RequestDuelAttached(c, r) ==
    /\ calls[c].rd = "attach"
    /\ IF r = "ok"
       THEN /\ calls' = [calls EXCEPT ![c] =
                   SettleCommand([@ EXCEPT !.rd = "resolved", !.duel = "Pending"],
                                 "resolved", "none")]
            /\ memberCooldownEndTimes' =
                   SetupCooldown(memberCooldownEndTimes, calls[c].tunnel,
                                 calls[c].invited, configuration, now)
       ELSE /\ calls' = [calls EXCEPT ![c] =
                   SettleCommand([@ EXCEPT !.rd = "rejected", !.rdErr = r],
                                 "rejected", r)]
            /\ UNCHANGED memberCooldownEndTimes
    /\ last' = [Did("requestDuelAttached", c) EXCEPT !.outcome = r]
    /\ UNCHANGED <<gameboards, configuration, channels, got, now, ticks>>

\* a request that takes an answer in any state it has been attached in
DuelAnsweredAnytime(c, answer) ==
    /\ calls[c].duel \in {"Pending", "Accepted", "Declined", "Expired"}
    /\ calls[c].duel # answer
    /\ calls' = [calls EXCEPT ![c].duel = answer]
    /\ last' = Did("duelAnswered", c)
    /\ UNCHANGED <<gameboards, memberCooldownEndTimes, configuration, channels, got, now, ticks>>

\* DuelRequest: the invited member answers the pending request
DuelAnswered(c, answer) ==
    /\ calls[c].duel = "Pending"
    /\ calls' = [calls EXCEPT ![c].duel = answer]
    /\ last' = Did("duelAnswered", c)
    /\ UNCHANGED <<gameboards, memberCooldownEndTimes, configuration, channels, got, now, ticks>>

\* DuelRequest: nobody answered before the request expired
DuelExpired(c) ==
    /\ calls[c].duel = "Pending"
    /\ calls' = [calls EXCEPT ![c].duel = "Expired"]
    /\ last' = Did("duelExpired", c)
    /\ UNCHANGED <<gameboards, memberCooldownEndTimes, configuration, channels, got, now, ticks>>

\* DuelRequest: an accepted request calls createGame(tunnel, invited)
DuelCreateGame(c, h) ==
    /\ calls[c].duel = "Accepted"
    /\ calls[c].cg = "none"
    /\ LET tunnel == calls[c].tunnel
           invited == calls[c].invited
           r == CreateGameSync(c, tunnel, invited, gameboards,
                               memberCooldownEndTimes, configuration, now, h)
       IN  /\ calls' = [calls EXCEPT ![c] =
                  [@ EXCEPT !.cg = r.status, !.cgErr = r.err,
                            !.cgLen = Len(gameboards), !.board = r.board,
                            !.replies = @ + r.replies, !.trace = r.trace]]
           /\ gameboards' = r.boards
           /\ last' = [Did("createGame", c) EXCEPT
                  !.valid = isInteractionValid(tunnel, memberCooldownEndTimes, now),
                  !.possible = isNewGamePossible(tunnel, invited, gameboards),
                  !.emitted = r.emitted, !.board = r.board,
                  !.replied = r.replies,
                  !.outcome = IF r.emitted # <<>> THEN h ELSE "none"]
    /\ UNCHANGED <<memberCooldownEndTimes, configuration, channels, got, now, ticks>>

\* the promise of createGame settles with state st: a command's own call is
\* settled through the command's chain, a duel's call is not
SettleCreateGame(call, st, err) ==
    LET next == [call EXCEPT !.cg = st, !.cgErr = err]
    IN  IF call.invited = None THEN SettleCommand(next, st, err) ELSE next

\* createGame: `await tunnel.replyWith(gameboard.content)` settles; on success
\* gameboard.attachTo(message) is called and returned
CreateGameReplied(c, r) ==
    /\ calls[c].cg = "reply"
    /\ calls' = [calls EXCEPT ![c] =
           IF r = "ok" THEN [@ EXCEPT !.cg = "attach", !.trace = Append(@, "attachTo")]
           ELSE SettleCreateGame(@, "rejected", r)]
    /\ last' = [Did("createGameReplied", c) EXCEPT !.outcome = r]
    /\ UNCHANGED <<gameboards, memberCooldownEndTimes, configuration, channels, got, now, ticks>>

\* createGame: the promise of gameboard.attachTo(message) settles
CreateGameAttached(c, r) ==
    /\ calls[c].cg = "attach"
    /\ calls' = [calls EXCEPT ![c] =
           IF r = "ok" THEN SettleCreateGame(@, "resolved", "none")
           ELSE SettleCreateGame(@, "rejected", r)]
    /\ last' = [Did("createGameAttached", c) EXCEPT !.outcome = r]
    /\ UNCHANGED <<gameboards, memberCooldownEndTimes, configuration, channels, got, now, ticks>>

\* endGame(gameboard, winner) on the board of call c, once it is attached;
\* h is what the 'win' / 'tie' handler does
EndGame(c, winner, h) ==
    /\ calls[c].cg = "resolved"
    /\ calls[c].board # NoBoard
    /\ winner \in {WinnerUndefined, WinnerNull} \cup Range(calls[c].board.entities)
    /\ LET gameboard == calls[c].board
           events == EndGameEvents(gameboard, winner)
           threw == events # <<>> /\ h # "ok"
       IN  /\ gameboards' = IF threw THEN gameboards
                            ELSE RemoveBoard(gameboards, gameboard)
           /\ last' = [Did("endGame", c) EXCEPT
                  !.emitted = events, !.board = gameboard,
                  !.winner = winner,
                  !.outcome = IF events # <<>> THEN h ELSE "none"]
    /\ UNCHANGED <<memberCooldownEndTimes, configuration, channels, got, now, ticks, calls>>

\* time passes
Tick ==
    /\ ticks < MaxTicks
    /\ now' = now + TickMs
    /\ ticks' = ticks + 1
    /\ last' = Did("tick", 0)
    /\ UNCHANGED <<gameboards, memberCooldownEndTimes, configuration, channels, got, calls>>

Next ==
    \/ \E c \in Calls, author \in Members, invited \in Members \cup Bots \cup {None},
          canView \in BOOLEAN, ok \in BOOLEAN, h \in HandlerOutcomes :
          Command(c, author, invited, canView, ok, h)
    \/ \E c \in Calls, r \in {"ok", ErrReply} : ErrorReplied(c, r)
    \/ \E c \in Calls, r \in {"ok", ErrReply} : RequestDuelReplied(c, r)
    \/ \E c \in Calls, r \in {"ok", ErrAttach} : RequestDuelAttached(c, r)
    \/ \E c \in Calls, answer \in {"Accepted", "Declined"} : DuelAnswered(c, answer)
    \/ \E c \in Calls : DuelExpired(c)
    \/ \E c \in Calls, h \in HandlerOutcomes : DuelCreateGame(c, h)
    \/ \E c \in Calls, r \in {"ok", ErrReply} : CreateGameReplied(c, r)
    \/ \E c \in Calls, r \in {"ok", ErrAttach} : CreateGameAttached(c, r)
    \/ \E c \in Calls, h \in HandlerOutcomes,
          winner \in {WinnerUndefined, WinnerNull} \cup
                     UNION {Range(calls[d].board.entities) : d \in Calls} :
          EndGame(c, winner, h)
    \/ Tick

Spec == Init /\ [][Next]_vars

\* --------------------------------------------------- TicTacToeBot channels
Parents == 1..MaxParents

\* a cache that never looks an instance up
getorCreateGameChannelAlwaysCreates(chs, parent) ==
    LET instance == [inst |-> Len(chs) + 1, channel |-> parent]
    IN  [channels |-> Append(chs, instance), instance |-> instance]

\* getorCreateGameChannel(parent): the cached instance of parent, or a new
\* GameChannel(this, parent) pushed to the cache
getorCreateGameChannel(chs, parent) ==
    IF \E i \in 1..Len(chs) : chs[i].channel = parent
    THEN [channels |-> chs,
          instance |-> chs[CHOOSE i \in 1..Len(chs) :
                               /\ chs[i].channel = parent
                               /\ \A j \in 1..(i - 1) : chs[j].channel # parent]]
    ELSE LET instance == [inst |-> Len(chs) + 1, channel |-> parent]
         IN  [channels |-> Append(chs, instance), instance |-> instance]

\* a caller asks for the game channel of parent
GameChannelRequested(parent) ==
    /\ LET r == getorCreateGameChannel(channels, parent)
       IN  /\ channels' = r.channels
           /\ got' = [parent |-> parent, instance |-> r.instance, pre |-> channels]
    /\ UNCHANGED <<gameboards, memberCooldownEndTimes, configuration, now, ticks,
                   calls, last>>

ChannelInit ==
    /\ Init
    /\ configuration = [requestCooldownTime |-> Undefined, aiDifficulty |-> "undefined"]

ChannelNext == \E parent \in Parents : GameChannelRequested(parent)

ChannelSpec == ChannelInit /\ [][ChannelNext]_vars

\* the expiry timer of an attached request fires unless an answer cancels it
LiveSpec == Spec /\ \A c \in Calls : WF_vars(DuelExpired(c))
\* ------------------------------------------------------------------- claims
OtherEntity(gameboard, e) ==
    IF gameboard.entities[1] = e THEN gameboard.entities[2] ELSE gameboard.entities[1]

Registered(gameboard, boards) == \E i \in 1..Len(boards) : boards[i] = gameboard

\* C1: endGame on a registered board emits exactly one 'win' (winner e, loser the
\* board's other entity) for a winner e of the board, exactly one 'tie' with both
\* entities for null, and nothing when the winner is omitted.
C1_EndGameClassifies ==
    (last.op = "endGame" /\ Registered(last.board, last.pre)) =>
        /\ last.winner \in Range(last.board.entities) =>
               last.emitted = <<WinEvent(last.winner,
                                         OtherEntity(last.board, last.winner))>>
        /\ last.winner = WinnerNull =>
               last.emitted = <<TieEvent(last.board.entities)>>
        /\ last.winner = WinnerUndefined => last.emitted = <<>>

C1_Witness ==
    /\ last.op = "endGame"
    /\ Registered(last.board, last.pre)
    /\ last.winner = last.board.entities[2]
    /\ last.winner.kind = "ai"
    /\ Len(last.emitted) = 1
    /\ last.emitted[1].name = "win"
    /\ last.emitted[1].loser = last.board.entities[1]

\* C2 (as claimed): endGame on a registered board removes it, the registry
\* shrinking by exactly 1, in all three outcome cases and also when the
\* 'win' or 'tie' handler throws.
C2_RemovedAlways ==
    (last.op = "endGame" /\ Registered(last.board, last.pre)) =>
        /\ ~Registered(last.board, gameboards)
        /\ Len(gameboards) = Len(last.pre) - 1

BoardsOf(m) ==
    {i \in 1..Len(gameboards) :
        \E j \in 1..2 : gameboards[i].entities[j] = MemberEntity(m)}

Names(call) == {call.tunnel.author, call.invited} \ {None}

\* C3: no member is a participant of two distinct boards of the registry.
C3_NoMemberInTwoBoards ==
    /\ \A m \in Members : Cardinality(BoardsOf(m)) <= 1
    /\ \A i, j \in 1..Len(gameboards) :
           i # j => Range(gameboards[i].entities) \cap Range(gameboards[j].entities) = {}

\* two createGame calls naming the same member: the first has appended its
\* board and waits for its reply, the second was turned down
C3_Witness ==
    \E c, d \in Calls :
        /\ c # d
        /\ Names(calls[c]) \cap Names(calls[d]) # {}
        /\ calls[c].cg = "reply"
        /\ Registered(calls[c].board, gameboards)
        /\ last.op = "createGame" /\ last.call = d
        /\ calls[d].cg = "rejected" /\ calls[d].cgErr = "undefined"
        /\ calls[d].board = NoBoard
\* the manager's promise of the latest requestDuel / createGame call
Promise(c) ==
    IF last.op = "requestDuel"
    THEN [state |-> calls[c].rd, err |-> calls[c].rdErr]
    ELSE [state |-> calls[c].cg, err |-> calls[c].cgErr]

EntryPointCalled == last.op \in {"requestDuel", "createGame"}

\* C4: with a valid interaction and isNewGamePossible false, requestDuel and
\* createGame reject with no payload and nothing else happens: registry and
\* cooldown map unchanged, no 'newGame', no DuelRequest or GameBoard, no reply.
C4_ConflictRejectsBeforeMutation ==
    (EntryPointCalled /\ last.valid /\ ~last.possible) =>
        /\ Promise(last.call) = [state |-> "rejected", err |-> "undefined"]
        /\ gameboards = last.pre
        /\ memberCooldownEndTimes = last.preCd
        /\ last.emitted = <<>>
        /\ last.board = NoBoard /\ calls[last.call].board = NoBoard
        /\ last.op = "requestDuel" => calls[last.call].duel = "none"
        /\ last.replied = 0

\* A plays in a registered board and asks for a game against the AI
C4_Witness ==
    /\ last.op = "createGame" /\ last.valid /\ ~last.possible
    /\ calls[last.call].invited = None
    /\ \E i \in 1..Len(gameboards) :
           gameboards[i].entities[1] = MemberEntity(calls[last.call].tunnel.author)
    /\ calls[last.call].cg = "rejected"

NewGameVetoed ==
    /\ last.op = "createGame"
    /\ last.emitted # <<>>
    /\ last.outcome # "ok"

\* C5: when a 'newGame' handler throws, createGame rejects with the thrown
\* error, the registry is what it was before the call and no reply is sent.
C5_VetoLeavesRegistry ==
    NewGameVetoed =>
        /\ Promise(last.call) = [state |-> "rejected", err |-> last.outcome]
        /\ gameboards = last.pre
        /\ ~Registered(last.board, gameboards)
        /\ last.replied = 0

C5_Witness ==
    /\ NewGameVetoed
    /\ last.outcome = ErrVeto
    /\ Len(last.pre) = 1
    /\ calls[last.call].cg = "rejected"

CoolingDown(c) ==
    InCooldown(calls[c].tunnel.author, last.preCd, now)

FromCommand(c) == last.op = "requestDuel" \/ calls[c].invited = None

\* C7: when isInteractionValid is false, requestDuel and createGame resolve
\* and do nothing: no session, no DuelRequest, no notification, no reply,
\* registry and cooldown map unchanged, and the command sends no error reply.
C7_InvalidInteractionIsSilent ==
    (EntryPointCalled /\ ~last.valid) =>
        /\ Promise(last.call) = [state |-> "resolved", err |-> "none"]
        /\ last.board = NoBoard /\ calls[last.call].board = NoBoard
        /\ last.op = "requestDuel" => calls[last.call].duel = "none"
        /\ last.emitted = <<>>
        /\ last.replied = 0
        /\ gameboards = last.pre
        /\ memberCooldownEndTimes = last.preCd
        /\ FromCommand(last.call) =>
               /\ calls[last.call].cmd = "resolved"
               /\ calls[last.call].cmdErr = "none"
               /\ calls[last.call].errReplies = 0

C7_Witness ==
    /\ last.op = "createGame" /\ ~last.valid
    /\ ~calls[last.call].tunnel.ok
    /\ calls[last.call].invited = None
    /\ calls[last.call].cmd = "resolved"
\* the second participant createGame is to register for call c
ExpectedSecond(c) ==
    IF calls[c].invited # None
    THEN MemberEntity(calls[c].invited)
    ELSE [kind |-> "ai", id |-> "none", n |-> calls[c].board.entities[2].n,
          level |-> IF configuration.aiDifficulty = "undefined"
                    THEN "default"
                    ELSE configuration.aiDifficulty]

ExpectedEntities(c) == <<MemberEntity(calls[c].tunnel.author), ExpectedSecond(c)>>

\* the entities of the boards of pre and of the boards of the other calls
EntitiesBefore(c) ==
    UNION ({Range(last.pre[i].entities) : i \in 1..Len(last.pre)} \cup
           {Range(calls[d].board.entities) : d \in Calls \ {c}})

\* C8 (as claimed): once a createGame call that built a board has resolved,
\* gameboards.length is exactly 1 greater than when the call started, and the
\* entry's entities are the author plus the invited member or an AI of the
\* configured difficulty.
C8_LengthAtResolution ==
    \A c \in Calls :
        (calls[c].cg = "resolved" /\ calls[c].board # NoBoard) =>
            /\ Len(gameboards) = calls[c].cgLen + 1
            /\ calls[c].board.entities = ExpectedEntities(c)

\* C8 (amended): a createGame that passes both validations and is not vetoed
\* appends exactly one board in its synchronous section: the registry is then
\* the registry before the call plus the new board at its end (length + 1),
\* whose entities are the author plus the invited member or, with none, a
\* fresh AI of the configured difficulty; the board of a resolved call has
\* these entities.
C8_AppendsOneBoard ==
    /\ (last.op = "createGame" /\ last.valid /\ last.possible /\ last.outcome = "ok") =>
           /\ gameboards = Append(last.pre, last.board)
           /\ Len(gameboards) = Len(last.pre) + 1
           /\ calls[last.call].board = last.board
           /\ last.board.entities = ExpectedEntities(last.call)
           /\ calls[last.call].invited = None =>
                  /\ last.board.entities[2].kind = "ai"
                  /\ last.board.entities[2] \notin EntitiesBefore(last.call)
    /\ \A c \in Calls :
           (calls[c].cg = "resolved" /\ calls[c].board # NoBoard) =>
               calls[c].board.entities = ExpectedEntities(c)

\* no invited member, difficulty "Hard": the new board holds an AI at "Hard"
C8_Witness ==
    /\ last.op = "createGame" /\ last.valid /\ last.possible /\ last.outcome = "ok"
    /\ configuration.aiDifficulty = "Hard"
    /\ calls[last.call].invited = None
    /\ Len(last.pre) = 1 /\ Len(gameboards) = 2
    /\ gameboards[2].entities[2].level = "Hard"

ConfiguredCooldown == Nullish(configuration.requestCooldownTime, 0)

DuelStates == {"Pending", "Accepted", "Declined", "Expired"}

\* C9: a requestDuel whose reply and attach complete records
\* now + cooldown * 1000 under the inviter's id, and nothing else, iff the
\* configured cooldown is greater than 0, and leaves the map unchanged
\* otherwise; the entry is there whatever becomes of the request.
C9_CooldownRecorded ==
    /\ (last.op = "requestDuelAttached" /\ last.outcome = "ok") =>
           LET author == calls[last.call].tunnel.author
           IN  IF ConfiguredCooldown > 0
               THEN memberCooldownEndTimes =
                        [last.preCd EXCEPT ![author] = <<now + ConfiguredCooldown * 1000>>]
               ELSE memberCooldownEndTimes = last.preCd
    /\ \A c \in Calls :
           (calls[c].rd = "resolved" /\ calls[c].duel \in DuelStates) =>
               (ConfiguredCooldown > 0 <=>
                    memberCooldownEndTimes[calls[c].tunnel.author] # Undefined)

\* the invited member let the request expire: the inviter's cooldown is
\* recorded, the invited member has none
C9_Witness ==
    \E c \in Calls :
        /\ calls[c].duel = "Expired"
        /\ ConfiguredCooldown > 0
        /\ memberCooldownEndTimes[calls[c].tunnel.author] = <<TickMs + 1000>>
        /\ memberCooldownEndTimes[calls[c].invited] = Undefined

CreateGameOrder ==
    <<"isInteractionValid", "isNewGamePossible", "newGame", "push", "replyWith", "attachTo">>

IsPrefix(p, q) == Len(p) <= Len(q) /\ SubSeq(q, 1, Len(p)) = p

Has(trace, what) == \E i \in 1..Len(trace) : trace[i] = what

\* C10: a createGame call validates, then notifies 'newGame', then appends,
\* then replies, then attaches; validation, notification and append are done
\* when the call first suspends, and the append only after the notification
\* has returned.
C10_CreateGameOrder ==
    /\ \A c \in Calls :
           /\ IsPrefix(calls[c].trace, CreateGameOrder)
           /\ calls[c].cg = "reply" => calls[c].trace = SubSeq(CreateGameOrder, 1, 5)
           /\ calls[c].cg \in {"attach", "resolved"} /\ calls[c].board # NoBoard =>
                  calls[c].trace = CreateGameOrder
    /\ last.op = "createGame" =>
           LET trace == calls[last.call].trace
           IN  /\ Has(trace, "newGame") <=> last.emitted # <<>>
               /\ Has(trace, "push") <=> gameboards = Append(last.pre, last.board)
               /\ ~Has(trace, "push") => gameboards = last.pre
               /\ Has(trace, "replyWith") <=> last.replied = 1
               /\ Has(trace, "push") => (Has(trace, "newGame") /\ last.outcome = "ok")

C10_Witness ==
    \E c \in Calls :
        /\ calls[c].cg = "resolved"
        /\ calls[c].trace = CreateGameOrder
        /\ calls[c].invited # None
\* the command layer called a manager entry point in the latest step
CommandCalledManager ==
    /\ EntryPointCalled
    /\ FromCommand(last.call)

\* C11: the command layer calls requestDuel / createGame only with an invited
\* member that is no bot, is not the inviter and can view the channel; a bot
\* is refused with 'duel.no-bot' (whatever else holds of it), the inviter or
\* a member who cannot view the channel with 'duel.unknown-user', and a
\* refusal leaves the registry and the cooldown map unchanged.
C11_InvitedIsChecked ==
    LET call == calls[last.call]
        bad == call.invited # None /\
               (call.invited \in Bots \/ call.invited = call.tunnel.author \/ ~last.canView)
    IN  /\ CommandCalledManager => ~bad
        /\ last.op = "refused" =>
               /\ bad
               /\ call.cmdErr = IF call.invited \in Bots THEN "duel.no-bot"
                                                         ELSE "duel.unknown-user"
               /\ call.cmd = "rejected"
               /\ call.rd = "none" /\ call.cg = "none"
               /\ call.duel = "none" /\ call.board = NoBoard
               /\ gameboards = last.pre
               /\ memberCooldownEndTimes = last.preCd

\* a bot that cannot view the channel either is refused as a bot
C11_Witness ==
    /\ last.op = "refused"
    /\ calls[last.call].invited \in Bots
    /\ ~last.canView
    /\ calls[last.call].cmdErr = "duel.no-bot"
    /\ Len(gameboards) = 1
\* the promise the command got from the manager entry point it called
ManagerPromise(c) ==
    IF calls[c].invited # None
    THEN [state |-> calls[c].rd, err |-> calls[c].rdErr]
    ELSE [state |-> calls[c].cg, err |-> calls[c].cgErr]

\* the text surfaced for a rejection payload
SurfacedMessage(err) ==
    CASE err = ErrVeto -> "veto"
      [] err = ErrReply -> "reply-failed"
      [] err = ErrAttach -> "attach-failed"
      [] err \in {"undefined", ErrNoMessage} -> "game.in-progress"

SurfacedOnce(c) ==
    /\ calls[c].cmd = "rejected"
    /\ calls[c].cmdErr = SurfacedMessage(ManagerPromise(c).err)
    /\ calls[c].errReplies = 1
    /\ calls[c].replies <= 1

\* C12 (as claimed): when requestDuel or createGame rejects, handleInvitation
\* rejects with the error's message or 'game.in-progress', exactly one error
\* reply is sent, and handleMessage / handleInteraction resolve.
C12_SurfacedOnceAndResolves ==
    \A c \in Calls :
        ManagerPromise(c).state = "rejected" =>
            /\ SurfacedOnce(c)
            /\ calls[c].handle \in {"replying", "resolved"}

\* C12 (amended): ... exactly one error reply is sent, never a second one,
\* and handleMessage / handleInteraction resolve when that reply is
\* delivered; when the error reply itself fails they reject.
C12_SurfacedOnce ==
    /\ \A c \in Calls :
           /\ ManagerPromise(c).state = "rejected" =>
                  /\ SurfacedOnce(c)
                  /\ calls[c].handle \in {"replying", "resolved", "rejected"}
           /\ calls[c].errReplies <= 1
           /\ calls[c].errReplies = 1 <=> calls[c].cmd = "rejected"
    /\ last.op = "errorReplied" =>
           calls[last.call].handle =
               IF last.outcome = "ok" THEN "resolved" ELSE "rejected"

\* a veto that carries no message is surfaced as 'game.in-progress'
C12_Witness ==
    \E c \in Calls :
        /\ calls[c].invited = None
        /\ calls[c].cgErr = ErrNoMessage
        /\ calls[c].cmdErr = "game.in-progress"
        /\ calls[c].errReplies = 1
        /\ calls[c].handle = "resolved"
RequestDuelOps == {"requestDuel", "requestDuelReplied", "requestDuelAttached"}
CreateGameOps == {"createGame", "createGameReplied", "createGameAttached"}

\* q is p with at most one position removed
DropsAtMostOne(p, q) ==
    \/ q = p
    \/ \E i \in 1..Len(p) : q = SubSeq(p, 1, i - 1) \o SubSeq(p, i + 1, Len(p))

\* C13: the registry is mutated only by createGame (append) and endGame
\* (remove), the cooldown map only by requestDuel: every step of requestDuel
\* leaves gameboards unchanged, every step of createGame and endGame leaves
\* memberCooldownEndTimes unchanged, and no other step writes either.
C13_FrameOfRegistryAndCooldowns ==
    /\ last.op \in RequestDuelOps => gameboards = last.pre
    /\ last.op \in CreateGameOps \cup {"endGame"} =>
           memberCooldownEndTimes = last.preCd
    /\ last.op \notin {"createGame", "endGame"} => gameboards = last.pre
    /\ last.op \notin RequestDuelOps => memberCooldownEndTimes = last.preCd
    /\ last.op = "createGame" =>
           gameboards \in {last.pre, Append(last.pre, last.board)}
    /\ last.op = "endGame" => DropsAtMostOne(last.pre, gameboards)

\* requestDuel records a cooldown while a board is registered
C13_Witness ==
    /\ last.op = "requestDuelAttached"
    /\ memberCooldownEndTimes # last.preCd
    /\ Len(gameboards) >= 1
TerminalDuelStates == {"Accepted", "Declined", "Expired"}

\* C14: a DuelRequest attached to a message starts Pending and eventually
\* reaches exactly one of Accepted, Declined or Expired (an answer of the
\* invited member, or else the expiry of the wait); once terminal its state
\* never changes again.
C14_DuelRequestTerminates ==
    /\ \A c \in Calls :
           (calls[c].duel = "Pending") ~> (calls[c].duel \in TerminalDuelStates)
    /\ [][\A c \in Calls :
              /\ calls[c].rd = "attach" /\ calls'[c].rd = "resolved" =>
                     calls'[c].duel = "Pending"
              /\ calls[c].duel # "Pending" /\ calls'[c].duel = "Pending" =>
                     calls[c].rd = "attach" /\ calls'[c].rd = "resolved"
              /\ calls[c].duel = "Pending" /\ calls'[c].duel # "Pending" =>
                     calls'[c].duel \in TerminalDuelStates
              /\ calls[c].duel \in TerminalDuelStates =>
                     calls'[c].duel = calls[c].duel]_vars

\* a request that nobody answered has expired
C14_Witness ==
    /\ last.op = "duelExpired"
    /\ calls[last.call].duel = "Expired"
    /\ calls[last.call].rd = "resolved"
\* C15: with a configured cooldown greater than 0, once a requestDuel by
\* member m has constructed a DuelRequest and is suspended at its reply or
\* attach await, a second requestDuel by m that starts meanwhile constructs
\* no other DuelRequest.
C15_OneRequestPerWindow ==
    ConfiguredCooldown > 0 =>
        \A c \in Calls, d \in Calls :
            /\ c # d
            /\ last.op = "requestDuel" /\ last.call = d
            /\ calls[c].rd \in {"reply", "attach"}
            /\ calls[c].duel = "Constructed"
            /\ calls[c].tunnel.author = calls[d].tunnel.author
            => calls[d].duel = "none"
\* boards without every occurrence of gameboard, order kept
Without(boards, gameboard) == SelectSeq(boards, LAMBDA b : b # gameboard)

\* C16: endGame never removes a board other than its argument: on a board
\* that is not in the registry it leaves gameboards unchanged, and on a
\* registered board it leaves every other entry and their order unchanged.
C16_RemovesOnlyItsArgument ==
    last.op = "endGame" =>
        IF Registered(last.board, last.pre)
        THEN gameboards \in {last.pre, Without(last.pre, last.board)}
        ELSE gameboards = last.pre
\* C17: a createGame call whose promise rejects leaves no board registered:
\* when the reply through the tunnel or the attach to the message fails, the
\* board created by that call is not in gameboards once the call has rejected.
C17_RejectedLeavesNoBoard ==
    \A c \in Calls :
        calls[c].cg = "rejected" /\ calls[c].board # NoBoard =>
            ~Registered(calls[c].board, gameboards)
\* C18: handleInvitation routes every accepted invitation to exactly one
\* manager entry point: with an invited member it calls requestDuel and never
\* createGame, so the command itself appends no board; with no invited member
\* it calls createGame and never requestDuel, so the second participant is an
\* AI and the cooldown map is not touched.
C18_OneEntryPoint ==
    /\ \A c \in Calls :
           /\ calls[c].invited # None /\ calls[c].cg # "none" =>
                  calls[c].rd = "resolved" /\ calls[c].duel = "Accepted"
           /\ calls[c].invited = None =>
                  /\ calls[c].rd = "none" /\ calls[c].duel = "none"
                  /\ calls[c].board # NoBoard => calls[c].board.entities[2].kind = "ai"
    /\ last.op = "requestDuel" =>
           /\ calls[last.call].invited # None
           /\ calls[last.call].cg = "none" /\ calls[last.call].board = NoBoard
           /\ gameboards = last.pre
    /\ last.op = "createGame" /\ calls[last.call].invited = None =>
           /\ calls[last.call].cg # "none"
           /\ memberCooldownEndTimes = last.preCd

\* a command without an invited member registers a board against an AI while
\* a cooldown of an earlier duel request is recorded
C18_Witness ==
    /\ last.op = "createGame"
    /\ calls[last.call].invited = None
    /\ Registered(last.board, gameboards)
    /\ last.board.entities[2].kind = "ai"
    /\ \E m \in Members : memberCooldownEndTimes[m] # Undefined
\* C19: after any sequence of getorCreateGameChannel calls the cache holds at
\* most one GameChannel per parent: the first call for a parent creates and
\* stores an instance, every later call with that parent returns the same
\* instance without growing the cache.
C19_OneChannelPerParent ==
    /\ \A i \in 1..Len(channels), j \in 1..Len(channels) :
           i # j => /\ channels[i].channel # channels[j].channel
                    /\ channels[i].inst # channels[j].inst
    /\ got # NoGot =>
           /\ got.instance.channel = got.parent
           /\ \E i \in 1..Len(channels) : channels[i] = got.instance
           /\ IF \E i \in 1..Len(got.pre) : got.pre[i].channel = got.parent
              THEN /\ channels = got.pre
                   /\ \E i \in 1..Len(got.pre) : got.pre[i] = got.instance
              ELSE channels = Append(got.pre, got.instance)

\* with several channels cached, a later call for the first parent returned
\* the instance stored by the first call
C19_Witness ==
    /\ Len(channels) >= 2
    /\ got.pre = channels
    /\ got.instance = channels[1]
====
